---- MODULE Spec2Model ----
(***************************************************************************)
(* Model of the nested dynamic-padding collator (data_collator.py).        *)
(*                                                                         *)
(* A collator object is constructed with max_sentence_len,                 *)
(* max_document_len and a tokenizer (of which only the id of "[PAD]" is    *)
(* read).  One call of the collator on a list of features is one action;   *)
(* the value it returns or the exception it raises is recorded in `run`,   *)
(* together with the values of the locals of __call__ at the point where   *)
(* the call ended.                                                         *)
(***************************************************************************)
EXTENDS Integers, Sequences, FiniteSets, TLC

VARIABLES
    max_sentence_len,   \* CustomDataCollator.max_sentence_len
    max_document_len,   \* CustomDataCollator.max_document_len
    pad_id,             \* tokenizer.convert_tokens_to_ids("[PAD]")
    article_numbers,    \* number of document slots the task puts in every example
    pc,                 \* "init" (constructed), "called" (one call has ended),
                        \* "called2" (a second call on the same list has ended)
    features,           \* the list handed to __call__
    run,                \* outcome of the call
    features_after,     \* what the objects of that list hold after the call
    run2                \* outcome of the second call

collatorVars == <<max_sentence_len, max_document_len, pad_id, article_numbers, pc,
                  features, run, features_after, run2>>

(* models.py: a model object built from the parsed arguments, and the      *)
(* forward calls made on it.                                               *)
VARIABLES
    args,               \* the parsed arguments the model is built from
    model,              \* the model object after __init__ (or the error it raised)
    mpc,                \* "off", "new", "failed", "ready", and inside a forward
                        \* call "head" (in the head's forward), "lower" (in the
                        \* encoder's loop over sentence positions), "upper"
    inputs,             \* keyword arguments of the forward call in progress
    frame,              \* locals of the encoder pass in progress
    outputs,            \* encoder passes completed in the forward call in progress
    history             \* the forward calls that have ended

modelVars == <<args, model, mpc, inputs, frame, outputs, history>>

(* train.py and finetuning.py: the training loop.                          *)
VARIABLES
    tcfg,               \* the arguments and the dataloader length of the run
    tpc,                \* "off", "train" (in the loop over batches), "eval"
                        \* (the epoch's batches are done), "done"
    epoch,              \* the epoch being run
    step,               \* index of the batch the inner loop is at
    completed_steps,    \* the script's counter of optimizer updates
    accumulated,        \* backward passes since the last zero_grad
    updates,            \* the optimizer updates made, in order
    losses,             \* the validation loss of every evaluated epoch
    best_score,         \* best_score (finetuning.py) / min_loss (train.py)
    patience,           \* finetuning.py's patience counter
    saved               \* the epochs after which the model was saved

trainVars == <<tcfg, tpc, epoch, step, completed_steps, accumulated, updates,
               losses, best_score, patience, saved>>

vars == <<collatorVars, modelVars, trainVars>>

\* Python's None where a tensor (a non-empty list of lists) is expected
None == <<>>

NoArgs == [ head |-> "none" ]
NoModel == [ error |-> "unbuilt" ]
NoInputs == [ article |-> <<>>, mask |-> <<>>,
              labels |-> [ dtype |-> "none", shape |-> "none", values |-> <<>> ] ]
NoFrame == [ slot |-> 0, called_with |-> [ input_ids |-> <<>>, attention_mask |-> <<>> ],
             input_ids |-> <<>>, attention_mask |-> <<>>,
             lower_encoded |-> <<>>, body_calls |-> <<>>, lower_output |-> <<>> ]

\* float("inf")
Inf == 99

NoTraining == [ script |-> "none" ]

\* no training run is in play
TrainingOff ==
    /\ tcfg = NoTraining
    /\ tpc = "off"
    /\ epoch = 0
    /\ step = 0
    /\ completed_steps = 0
    /\ accumulated = 0
    /\ updates = <<>>
    /\ losses = <<>>
    /\ best_score = Inf
    /\ patience = 0
    /\ saved = {}

\* no model is in play
ModelsOff ==
    /\ args = NoArgs
    /\ model = NoModel
    /\ mpc = "off"
    /\ inputs = NoInputs
    /\ frame = NoFrame
    /\ outputs = <<>>
    /\ history = <<>>

-----------------------------------------------------------------------------
(* Bounds of the input family. *)

MaxSenLen == 3      \* longest sentence of a generated document
MaxDocLen == 3      \* largest sentence count of a generated document
MaxLoaderLen == 3   \* longest train dataloader
MaxGas       == 2   \* largest gradient_accumulation_steps
MaxEpochs    == 3   \* largest --num_train_epochs
MaxGivenSteps == 3  \* largest --max_train_steps given
MaxPatienceArg == 2 \* largest --max_patience
MaxBatch  == 2      \* largest generated batch

-----------------------------------------------------------------------------
(* Python list helpers. *)

\* [x] * n : the empty list when n <= 0
Repeat(x, n) == [i \in 1..(IF n > 0 THEN n ELSE 0) |-> x]

\* s[:n] for n >= 0
Prefix(s, n) == SubSeq(s, 1, IF n < Len(s) THEN n ELSE Len(s))

RECURSIVE Concat(_)
Concat(ss) == IF ss = <<>> THEN <<>> ELSE Head(ss) \o Concat(Tail(ss))

RECURSIVE MaxOf(_)
\* max(list) of a non-empty list of naturals
MaxOf(s) == IF Len(s) = 1 THEN s[1]
            ELSE LET m == MaxOf(Tail(s)) IN IF s[1] >= m THEN s[1] ELSE m

Min(a, b) == IF a <= b THEN a ELSE b

Lens(doc) == [j \in 1..Len(doc) |-> Len(doc[j])]

-----------------------------------------------------------------------------
(* pad_sentence: sentence-level padding of one feature's document.         *)

\* (variant) the padding put in front of the sentence
PadSentenceRowLeft(sentence, fill, sen_len) ==
    Repeat(fill, sen_len - Len(sentence)) \o sentence

PadSentenceRow(sentence, fill, sen_len) ==
    sentence \o Repeat(fill, sen_len - Len(sentence))

\* (variant) mask rows padded with 1, the id of an attended position
pad_sentence_mask_one(sen_len, feature, article_number) ==
    [ sentences |-> [j \in 1..Len(feature.article[article_number]) |->
                        PadSentenceRow(feature.article[article_number][j], pad_id, sen_len)],
      masks     |-> [j \in 1..Len(feature.mask[article_number]) |->
                        PadSentenceRow(feature.mask[article_number][j], 1, sen_len)] ]

pad_sentence(sen_len, feature, article_number) ==
    [ sentences |-> [j \in 1..Len(feature.article[article_number]) |->
                        PadSentenceRow(feature.article[article_number][j], pad_id, sen_len)],
      masks     |-> [j \in 1..Len(feature.mask[article_number]) |->
                        PadSentenceRow(feature.mask[article_number][j], 0, sen_len)] ]

(* pad_document: document-level padding, in place on the two lists that    *)
(* pad_sentence built.  err is the exception raised by sentences[0] or     *)
(* masks[0] on an empty list.                                              *)

\* (variant) truncation that keeps the last doc_len sentences
PadDocumentListsKeepLast(sentences, masks, doc_len) ==
    LET mask_padding_array     == Repeat(0, Len(masks[1]))
        sentence_padding_array == Repeat(pad_id, Len(sentences[1]))
    IN  IF Len(sentences) < doc_len
        THEN [ sentences |-> sentences \o Repeat(sentence_padding_array, doc_len - Len(sentences)),
               masks     |-> masks \o Repeat(mask_padding_array, doc_len - Len(masks)) ]
        ELSE IF Len(sentences) > doc_len
        THEN [ sentences |-> SubSeq(sentences, Len(sentences) - doc_len + 1, Len(sentences)),
               masks     |-> SubSeq(masks, Len(sentences) - doc_len + 1, Len(masks)) ]
        ELSE [ sentences |-> sentences, masks |-> masks ]

PadDocumentLists(sentences, masks, doc_len) ==
    LET mask_padding_array     == Repeat(0, Len(masks[1]))
        sentence_padding_array == Repeat(pad_id, Len(sentences[1]))
    IN  IF Len(sentences) < doc_len
        THEN [ sentences |-> sentences \o Repeat(sentence_padding_array, doc_len - Len(sentences)),
               masks     |-> masks \o Repeat(mask_padding_array, doc_len - Len(masks)) ]
        ELSE IF Len(sentences) > doc_len
        THEN [ sentences |-> Prefix(sentences, doc_len),
               masks     |-> Prefix(masks, doc_len) ]
        ELSE [ sentences |-> sentences, masks |-> masks ]

pad_document(sentences, masks, doc_len) ==
    IF Len(masks) = 0 \/ Len(sentences) = 0
    THEN [ err |-> "IndexError", sentences |-> sentences, masks |-> masks ]
    ELSE LET r == PadDocumentLists(sentences, masks, doc_len)
         IN  [ err |-> "none", sentences |-> r.sentences, masks |-> r.masks ]

-----------------------------------------------------------------------------
(* torch.tensor on a list of documents: a dense tensor needs every         *)
(* document to have the same number of rows and every row the same width.  *)

Rectangular(lists) ==
    /\ \A i \in 1..Len(lists) : Len(lists[i]) = Len(lists[1])
    /\ \A i \in 1..Len(lists) : \A j \in 1..Len(lists[i]) :
          Len(lists[i][j]) = Len(lists[1][1])

Shape(t) == <<Len(t), Len(t[1]), Len(t[1][1])>>

-----------------------------------------------------------------------------
(* __call__, one pass of the loop over article_number.                     *)

sen_len_article(fs, article_number) ==
    Concat([i \in 1..Len(fs) |-> Lens(fs[i].article[article_number])])

sen_len_mask(fs, article_number) ==
    Concat([i \in 1..Len(fs) |-> Lens(fs[i].mask[article_number])])

doc_len_article(fs, article_number) ==
    [i \in 1..Len(fs) |-> Len(fs[i].mask[article_number])]

NoLocals == [ sen_len |-> -1, doc_len |-> -1, padded |-> <<>>,
              batch_sentences |-> <<>>, batch_masks |-> <<>> ]

\* The locals of one pass and how the pass ended: "ok" or the exception.
ArticlePass(fs, article_number) ==
    IF \E i \in 1..Len(fs) : article_number \notin DOMAIN fs[i].article
    THEN NoLocals @@ [ end |-> "KeyError", tensors |-> {} ]
    ELSE IF sen_len_article(fs, article_number) # sen_len_mask(fs, article_number)
    THEN NoLocals @@ [ end |-> "AssertionError", tensors |-> {} ]
    ELSE IF sen_len_article(fs, article_number) = <<>>
    THEN NoLocals @@ [ end |-> "ValueError", tensors |-> {} ]
    ELSE
    LET sen_len == Min(max_sentence_len, MaxOf(sen_len_article(fs, article_number)))
        doc_len == Min(max_document_len, MaxOf(doc_len_article(fs, article_number)))
        padded  == [i \in 1..Len(fs) |-> pad_sentence(sen_len, fs[i], article_number)]
        docs    == [i \in 1..Len(fs) |->
                       pad_document(padded[i].sentences, padded[i].masks, doc_len)]
        \* the loop over features stops at the first one whose pad_document raises
        done    == IF \E i \in 1..Len(fs) : docs[i].err # "none"
                   THEN (CHOOSE i \in 1..Len(fs) :
                            /\ docs[i].err # "none"
                            /\ \A h \in 1..(i - 1) : docs[h].err = "none") - 1
                   ELSE Len(fs)
        batch_sentences == [i \in 1..done |-> docs[i].sentences]
        batch_masks     == [i \in 1..done |-> docs[i].masks]
        loc == [ sen_len |-> sen_len, doc_len |-> doc_len, padded |-> padded,
                 batch_sentences |-> batch_sentences, batch_masks |-> batch_masks ]
    IN  IF done < Len(fs)
        THEN loc @@ [ end |-> "IndexError", tensors |-> {} ]
        ELSE IF ~Rectangular(batch_sentences)
        THEN loc @@ [ end |-> "ValueError", tensors |-> {} ]
        ELSE IF ~Rectangular(batch_masks)
        THEN loc @@ [ end |-> "ValueError", tensors |-> {"article"} ]
        ELSE loc @@ [ end |-> "ok", tensors |-> {"article", "mask"} ]

\* range(1, 3)
ArticleRange == <<1, 2>>

\* The batch dictionary after the passes in `passes`: its keys are
\* <<"article", n>> and <<"mask", n>>.
BatchOf(passes) ==
    [ k \in { <<kind, n>> \in {"article", "mask"} \X (1..Len(passes)) :
                 kind \in passes[n].tensors } |->
        IF k[1] = "article" THEN passes[k[2]].batch_sentences
                            ELSE passes[k[2]].batch_masks ]

RECURSIVE CallFrom(_, _, _)
CallFrom(fs, todo, passes) ==
    IF todo = <<>>
    THEN [ status |-> "returned", passes |-> passes, batch |-> BatchOf(passes) ]
    ELSE LET p == ArticlePass(fs, Head(todo))
         IN  IF p.end = "ok"
             THEN CallFrom(fs, Tail(todo), Append(passes, p))
             ELSE [ status |-> p.end, passes |-> Append(passes, p),
                    batch |-> BatchOf(Append(passes, p)) ]

\* (variant) an empty list of features answered with an empty batch
CollateEmptyBatch(fs) ==
    IF fs = <<>> THEN [ status |-> "returned", passes |-> <<>>, batch |-> <<>> ]
    ELSE CallFrom(fs, ArticleRange, <<>>)

\* CustomDataCollator.__call__(features)
Collate(fs) == CallFrom(fs, ArticleRange, <<>>)

(* What the caller's objects hold after the call.  pad_sentence builds new *)
(* lists (a comprehension of `sentence + [...]`, which is a new list too), *)
(* and pad_document pads or cuts those lists in place: the lists of the    *)
(* feature are not written.                                                *)

\* (variant) pad_sentence handing out the feature's own mask list, so that
\* the padded and cut mask rows are stored in the feature
FeatureAfterMaskInPlace(feature, article_number, sentences, masks) ==
    [feature EXCEPT !.mask[article_number] = masks]

\* (variant) padding and truncation done on the feature's own lists
FeatureAfterInPlace(feature, article_number, sentences, masks) ==
    [feature EXCEPT !.article[article_number] = sentences,
                    !.mask[article_number] = masks]

\* the feature after pad_sentence and pad_document have worked on the slot
FeatureAfter(feature, article_number, sentences, masks) == feature

RECURSIVE FeaturesAfter(_, _, _)
\* the list of features after passes n.. of the call
FeaturesAfter(fs, passes, n) ==
    IF n > Len(passes) THEN fs
    ELSE FeaturesAfter(
            [i \in 1..Len(fs) |->
                IF i <= Len(passes[n].batch_sentences)
                THEN FeatureAfter(fs[i], n, passes[n].batch_sentences[i],
                                  passes[n].batch_masks[i])
                ELSE fs[i]],
            passes, n + 1)

-----------------------------------------------------------------------------
(* The features handed to the collator.  A feature maps every document     *)
(* slot of the task to a list of sentences (article) and a list of mask    *)
(* rows (mask), and carries a label.  Token ids are distinct per example,  *)
(* slot, sentence and position, so that every output entry can be traced   *)
(* to the input entry it came from.                                        *)

Tok(e, s, j, k) == 1000 * e + 100 * s + 10 * j + k

\* Sentence lengths of a generated document: "ramp" is 1, 2, .., MaxSenLen,
\* 1, ..; "flat" is MaxSenLen throughout.
PatLen(pat, j) == IF pat = "flat" THEN MaxSenLen ELSE ((j - 1) % MaxSenLen) + 1

\* Mask defects: "ok" mirrors the sentences; "drop" lacks the mask of the
\* last sentence; "extra" has one mask row more than there are sentences;
\* "long" has a first mask row one entry longer than its sentence.
Kinds == [ n : 0..MaxDocLen, pat : {"ramp"}, defect : {"ok"} ]
         \cup [ n : 0..MaxDocLen, pat : {"flat"}, defect : {"ok", "drop", "extra", "long"} ]

\* Even slots of a well-formed example hold one sentence less, so that the
\* slots of one batch differ in shape.
SlotCount(kind, s) ==
    IF kind.defect = "ok" /\ kind.n >= 2 /\ s % 2 = 0 THEN kind.n - 1 ELSE kind.n

TokLens(kind, s) == [j \in 1..SlotCount(kind, s) |-> PatLen(kind.pat, j)]

MaskLens(kind, s) ==
    LET t == TokLens(kind, s)
    IN  CASE kind.defect = "drop"  -> Prefix(t, Len(t) - 1)
          [] kind.defect = "extra" -> Append(t, PatLen(kind.pat, Len(t) + 1))
          [] kind.defect = "long" /\ Len(t) > 0 -> [t EXCEPT ![1] = @ + 1]
          [] OTHER -> t

MkFeature(e, kind, slots) ==
    [ article |-> [s \in slots |->
                     [j \in 1..Len(TokLens(kind, s)) |->
                        [k \in 1..TokLens(kind, s)[j] |-> Tok(e, s, j, k)]]],
      mask    |-> [s \in slots |->
                     [j \in 1..Len(MaskLens(kind, s)) |->
                        [k \in 1..MaskLens(kind, s)[j] |-> 1]]],
      labels  |-> e % 2 ]

\* One example holding the same well-formed document in every slot.
Single(doc, slots) ==
    << [ article |-> [s \in slots |-> doc],
         mask    |-> [s \in slots |-> [j \in 1..Len(doc) |-> [k \in 1..Len(doc[j]) |-> 1]]],
         labels  |-> 1 ] >>

ScenarioPad   == << <<1, 2>>, <<3, 4, 5>> >>
ScenarioLong  == << <<11, 12, 13>>, <<21, 22, 23, 24, 25>> >>
ScenarioTrunc == << <<31>>, <<32, 33>>, <<34>>, <<35, 36>>, <<37>> >>

Scenarios == { ScenarioPad, ScenarioLong, ScenarioTrunc }

Generated(ks, slots) == [e \in 1..Len(ks) |-> MkFeature(e, ks[e], slots)]

\* One example whose document of slot s has no sentence, its other slots
\* holding a one-sentence document; with `more`, a second example without
\* empty slot.
EmptyInSlot(s, slots, more) ==
    LET one   == [ n |-> 1, pat |-> "ramp", defect |-> "ok" ]
        full  == MkFeature(1, one, slots)
        empty == [ full EXCEPT !.article[s] = <<>>, !.mask[s] = <<>> ]
    IN  IF more THEN <<empty, MkFeature(2, one, slots)>> ELSE <<empty>>

-----------------------------------------------------------------------------
(* Construction and the call.                                              *)

\* CustomDataCollator(tokenizer, max_sentence_len, max_document_len) for
\* the tasks of train.py and finetuning.py: 1 slot (classification),
\* 2 (contrastive), 4 (contrastive with hard negatives).
Setups ==
    { [msl |-> MaxSenLen - 1, mdl |-> MaxDocLen - 1, pad |-> 1, slots |-> t] : t \in {1, 2, 4} }
    \cup { [msl |-> 4,  mdl |-> 2, pad |-> 0, slots |-> 2],
           [msl |-> 10, mdl |-> 3, pad |-> 0, slots |-> 2] }

NoRun == [ status |-> "none", passes |-> <<>>, batch |-> <<>> ]

Init ==
    /\ \E c \in Setups :
          /\ max_sentence_len = c.msl
          /\ max_document_len = c.mdl
          /\ pad_id = c.pad
          /\ article_numbers = c.slots
    /\ pc = "init"
    /\ features = <<>>
    /\ run = NoRun
    /\ features_after = <<>>
    /\ run2 = NoRun
    /\ ModelsOff
    /\ TrainingOff

\* one call of the collator on fs
Collates(fs) ==
    /\ features' = fs
    /\ run' = Collate(fs)
    /\ features_after' = FeaturesAfter(fs, run'.passes, 1)

Call ==
    /\ pc = "init"
    /\ \/ \E doc \in Scenarios : Collates(Single(doc, 1..article_numbers))
       \/ \E b \in 0..MaxBatch : \E ks \in [1..b -> Kinds] :
             Collates(Generated(ks, 1..article_numbers))
       \/ \E s \in 1..article_numbers : \E more \in BOOLEAN :
             Collates(EmptyInSlot(s, 1..article_numbers, more))
    /\ pc' = "called"
    /\ UNCHANGED <<max_sentence_len, max_document_len, pad_id, article_numbers, run2>>
    /\ UNCHANGED <<modelVars, trainVars>>

\* the collator called once more on the same list, after the first call
\* has returned
CallAgain ==
    /\ pc = "called"
    /\ run.status = "returned"
    /\ run2' = Collate(features_after)
    /\ features_after' = FeaturesAfter(features_after, run2'.passes, 1)
    /\ pc' = "called2"
    /\ UNCHANGED <<max_sentence_len, max_document_len, pad_id, article_numbers,
                   features, run>>
    /\ UNCHANGED <<modelVars, trainVars>>

Next == Call \/ CallAgain

SpecCollator == Init /\ [][Next]_vars

Returned == pc \in {"called", "called2"} /\ run.status = "returned"

-----------------------------------------------------------------------------
(* Vocabulary of the properties.                                           *)

\* the passes of the call that got as far as padding
PaddingPasses == { n \in 1..Len(run.passes) : run.passes[n].sen_len >= 0 }

\* a document whose mask mirrors its sentences
WellFormed(f, s) == Lens(f.article[s]) = Lens(f.mask[s])

AllWellFormed == \A i \in 1..Len(features) : \A s \in DOMAIN features[i].article :
                    WellFormed(features[i], s)

AllOf(row, from, x) == \A k \in from..Len(row) : row[k] = x

\* the batch's true maxima in slot s
LongestSentence(s) == MaxOf(Concat([i \in 1..Len(features) |-> Lens(features[i].article[s])]))
MostSentences(s)   == MaxOf([i \in 1..Len(features) |-> Len(features[i].article[s])])

-----------------------------------------------------------------------------
\* C1: whenever a call on a non-empty batch of well-formed documents returns,
\* each slot's token tensor and mask tensor have shape (batch_size, doc_len,
\* sen_len) with sen_len = min(max_sentence_len, longest sentence of the slot)
\* and doc_len = min(max_document_len, largest sentence count of the slot).
C1_Shape ==
    (Returned /\ AllWellFormed) =>
        \A n \in 1..Len(run.passes) :
            LET want == << Len(features),
                           Min(max_document_len, MostSentences(n)),
                           Min(max_sentence_len, LongestSentence(n)) >>
            IN  /\ Shape(run.batch[<<"article", n>>]) = want
                /\ Shape(run.batch[<<"mask", n>>]) = want

\* C2: pad_sentence right-pads every sentence that is not longer than sen_len
\* to exactly sen_len entries: the tokens unchanged and in order, then only
\* pad ids; the mask row unchanged, then only zeros.
C2_RightPad ==
    \A n \in PaddingPasses : \A i \in 1..Len(features) :
        LET p == run.passes[n]
            a == features[i].article[n]
            m == features[i].mask[n]
        IN  /\ Len(p.padded[i].sentences) = Len(a)
            /\ Len(p.padded[i].masks) = Len(m)
            /\ \A j \in 1..Len(a) : Len(a[j]) <= p.sen_len =>
                  /\ Len(p.padded[i].sentences[j]) = p.sen_len
                  /\ SubSeq(p.padded[i].sentences[j], 1, Len(a[j])) = a[j]
                  /\ AllOf(p.padded[i].sentences[j], Len(a[j]) + 1, pad_id)
            /\ \A j \in 1..Len(m) : Len(m[j]) <= p.sen_len =>
                  /\ Len(p.padded[i].masks[j]) = p.sen_len
                  /\ SubSeq(p.padded[i].masks[j], 1, Len(m[j])) = m[j]
                  /\ AllOf(p.padded[i].masks[j], Len(m[j]) + 1, 0)

\* a returned call in which a sentence shorter than sen_len was padded
C2_Witness ==
    /\ Returned
    /\ \E n \in PaddingPasses : \E i \in 1..Len(features) :
          \E j \in 1..Len(features[i].article[n]) :
             /\ Len(features[i].article[n][j]) < run.passes[n].sen_len
             /\ Len(run.passes[n].padded[i].sentences[j]) = run.passes[n].sen_len

\* C3: a sentence longer than sen_len is truncated to its first sen_len
\* tokens, its mask to its first sen_len entries; after sentence-level
\* padding every sentence and every mask row has length exactly sen_len.
C3_Truncated ==
    \A n \in PaddingPasses : \A i \in 1..Len(features) :
        LET p == run.passes[n]
            a == features[i].article[n]
            m == features[i].mask[n]
        IN  /\ \A j \in 1..Len(a) :
                  /\ Len(p.padded[i].sentences[j]) = p.sen_len
                  /\ Len(a[j]) > p.sen_len => p.padded[i].sentences[j] = Prefix(a[j], p.sen_len)
            /\ \A j \in 1..Len(m) :
                  /\ Len(p.padded[i].masks[j]) = p.sen_len
                  /\ Len(m[j]) > p.sen_len => p.padded[i].masks[j] = Prefix(m[j], p.sen_len)

\* C4: pad_document extends a document with fewer than doc_len sentences to
\* exactly doc_len sentences; every appended token row is sen_len pad ids,
\* every appended mask row sen_len zeros, and the original sentences stay
\* first and unchanged.
C4_AppendPadRows ==
    \A n \in PaddingPasses : \A i \in 1..Len(run.passes[n].batch_sentences) :
        LET p == run.passes[n]
            before == p.padded[i]
        IN  (WellFormed(features[i], n) /\ Len(before.sentences) < p.doc_len) =>
              /\ Len(p.batch_sentences[i]) = p.doc_len
              /\ Len(p.batch_masks[i]) = p.doc_len
              /\ Prefix(p.batch_sentences[i], Len(before.sentences)) = before.sentences
              /\ Prefix(p.batch_masks[i], Len(before.masks)) = before.masks
              /\ \A j \in (Len(before.sentences) + 1)..p.doc_len :
                    /\ p.batch_sentences[i][j] = Repeat(pad_id, p.sen_len)
                    /\ p.batch_masks[i][j] = Repeat(0, p.sen_len)

\* C5: a document with more than doc_len sentences is truncated to exactly
\* its first doc_len sentences in original order, tokens and masks alike.
C5_KeepFirst ==
    \A n \in PaddingPasses : \A i \in 1..Len(run.passes[n].batch_sentences) :
        LET p == run.passes[n]
            a == features[i].article[n]
            m == features[i].mask[n]
        IN  (WellFormed(features[i], n) /\ Len(a) > p.doc_len) =>
              /\ Len(p.batch_sentences[i]) = p.doc_len
              /\ Len(p.batch_masks[i]) = p.doc_len
              /\ \A j \in 1..p.doc_len :
                    /\ p.batch_sentences[i][j] = p.padded[i].sentences[j]
                    /\ p.batch_masks[i][j] = p.padded[i].masks[j]
                    /\ Prefix(p.batch_sentences[i][j], Len(a[j])) = Prefix(a[j], Len(p.batch_sentences[i][j]))
                    /\ Prefix(p.batch_masks[i][j], Len(m[j])) = Prefix(m[j], Len(p.batch_masks[i][j]))

\* the 5-sentence document collated with max_document_len = 3
C5_Witness ==
    /\ Returned
    /\ max_document_len = 3
    /\ features = Single(ScenarioTrunc, 1..article_numbers)
    /\ run.batch[<<"article", 1>>][1] = << <<31, pad_id>>, <<32, 33>>, <<34, pad_id>> >>

\* C6: for every batch in which some example has, in a slot the collator
\* reads, a list of token-sentence lengths different from its list of
\* mask-sentence lengths, the call fails: no batch is returned.
C6_MismatchIsFatal ==
    (/\ pc = "called"
     /\ \E i \in 1..Len(features) : \E s \in DOMAIN features[i].article :
           /\ s \in {ArticleRange[x] : x \in 1..Len(ArticleRange)}
           /\ ~WellFormed(features[i], s))
    => run.status # "returned"

\* C7: in every returned batch, for each slot the token tensor and the mask
\* tensor have the same shape; every position filled by sentence-level or
\* document-level padding holds the pad id and mask 0; every other position
\* holds an input token together with that token's input mask value.
C7_Aligned ==
    Returned =>
        \A n \in 1..Len(run.passes) :
            LET t == run.batch[<<"article", n>>]
                m == run.batch[<<"mask", n>>]
            IN  /\ Shape(t) = Shape(m)
                /\ \A i \in 1..Len(t) : \A j \in 1..Len(t[i]) : \A k \in 1..Len(t[i][j]) :
                      LET a == features[i].article[n]
                          b == features[i].mask[n]
                      IN  IF j <= Len(a) /\ k <= Len(a[j])
                          THEN /\ t[i][j][k] = a[j][k]
                               /\ j <= Len(b) /\ k <= Len(b[j])
                               /\ m[i][j][k] = b[j][k]
                          ELSE /\ t[i][j][k] = pad_id
                               /\ m[i][j][k] = 0

\* the two scenarios of C8, collated by the collator they name
PadScenarioRun ==
    /\ pc = "called" /\ max_sentence_len = 4 /\ max_document_len = 2 /\ pad_id = 0
    /\ features = Single(ScenarioPad, 1..article_numbers)

LongScenarioRun ==
    /\ pc = "called" /\ max_sentence_len = 10 /\ pad_id = 0
    /\ features = Single(ScenarioLong, 1..article_numbers)

\* the first scenario's batch when the sentence dimension is `width`
PadScenarioResult(width) ==
    /\ run.status = "returned"
    /\ run.batch[<<"article", 1>>] =
          << << <<1, 2>> \o Repeat(0, width - 2), <<3, 4, 5>> \o Repeat(0, width - 3) >> >>
    /\ run.batch[<<"mask", 1>>] =
          << << <<1, 1>> \o Repeat(0, width - 2), <<1, 1, 1>> \o Repeat(0, width - 3) >> >>
    /\ Shape(run.batch[<<"article", 1>>]) = <<1, 2, width>>

\* both sentences of the long scenario come out with length `width`, the
\* 3-token sentence followed by width - 3 pad ids with mask 0
LongScenarioResult(width) ==
    /\ run.status = "returned"
    /\ \A j \in 1..2 : /\ Len(run.batch[<<"article", 1>>][1][j]) = width
                       /\ Len(run.batch[<<"mask", 1>>][1][j]) = width
    /\ run.batch[<<"article", 1>>][1][1] = <<11, 12, 13>> \o Repeat(0, width - 3)
    /\ run.batch[<<"mask", 1>>][1][1]    = <<1, 1, 1>> \o Repeat(0, width - 3)
    /\ SubSeq(run.batch[<<"article", 1>>][1][2], 1, 5) = <<21, 22, 23, 24, 25>>

\* C8 as stated: the first scenario yields tokens [[1,2,0,0],[3,4,5,0]], masks
\* [[1,1,0,0],[1,1,1,0]] and shape (1,2,4); sentences of length 3 and 5
\* collated with max_sentence_len=10 both come out with length 10, the
\* 3-token sentence carrying 7 trailing pad ids with mask 0.
C8_AsStated ==
    /\ PadScenarioRun => PadScenarioResult(4)
    /\ LongScenarioRun => LongScenarioResult(10)

\* C8 (amended): the first scenario yields tokens [[1,2,0],[3,4,5]], masks
\* [[1,1,0],[1,1,1]] and shape (1,2,3); sentences of length 3 and 5 collated
\* with max_sentence_len=10 both come out with length 5, the 3-token sentence
\* carrying 2 trailing pad ids with mask 0: the sentence dimension is the
\* longest sentence of the batch when that is below max_sentence_len.
C8_Scenarios ==
    /\ PadScenarioRun => PadScenarioResult(3)
    /\ LongScenarioRun => LongScenarioResult(5)

C8_Witness == LongScenarioRun /\ run.status = "returned" /\ run.passes[1].sen_len = 5

\* C9: the returned batch has as many examples as the input list, in the
\* same order, and carries the examples' labels through unmodified.
C9_LabelsCarried ==
    Returned =>
        /\ \A k \in DOMAIN run.batch : Len(run.batch[k]) = Len(features)
        /\ \A n \in 1..Len(run.passes) : \A i \in 1..Len(features) :
              Prefix(run.batch[<<"article", n>>][i][1], Len(features[i].article[n][1]))
                 = Prefix(features[i].article[n][1], Len(run.batch[<<"article", n>>][i][1]))
        /\ <<"labels", 0>> \in DOMAIN run.batch
        /\ run.batch[<<"labels", 0>>] = [i \in 1..Len(features) |-> features[i].labels]

\* C10: the collator reads and emits exactly the document slots of the task
\* (1, 2 or 4): it never requires a slot the task does not have and never
\* leaves out one it has.
C10_ExactSlots ==
    pc = "called" =>
        /\ run.status # "KeyError"
        /\ Returned =>
              { k[2] : k \in DOMAIN run.batch } = 1..article_numbers


\* C11: a call with an empty list of examples raises; no batch, and no
\* tensor at all, is returned.
C11_EmptyIsFatal ==
    (pc # "init" /\ features = <<>>) =>
        /\ run.status \notin {"returned", "none"}
        /\ DOMAIN run.batch = {}

C11_Witness == pc = "called" /\ features = <<>> /\ run.status = "ValueError"

-----------------------------------------------------------------------------
(* models.py: construction.                                                *)
(* A model object is a record of the attributes __init__ has set.  Its     *)
(* parameters are named by the module that owns them; requires_grad maps   *)
(* each parameter to its flag (True for a fresh nn.Parameter).             *)

\* the parameters of the transformer body, lower_model.base_model
\* (lower_model.roberta or lower_model.bert)
BodyParams == { "lower_model.base_model.embeddings", "lower_model.base_model.encoder" }

\* the parameters of the pooling projection, lower_model.pooler (Pooler.dense)
PoolerParams == { "lower_model.pooler.dense" }

\* every parameter of the lower encoder
LowerParams == BodyParams \cup PoolerParams

UpperParams == { "transformer_encoder" }

ClassifierParams == { "classifier" }

\* AutoConfig.model_type of the checkpoints tried
ModelTypes == { "xlm-roberta", "bert", "longformer" }

\* (variant) a selector that falls back to the BERT body
lower_selector_default_bert(model_type) ==
    IF model_type = "xlm-roberta"
    THEN [ error |-> "none", lower_model |-> "LowerXLMREncoder" ]
    ELSE [ error |-> "none", lower_model |-> "LowerBertEncoder" ]

\* HiearchicalModel.lower_selector / HiearchicalBaseModel.lower_selector
lower_selector(model_type) ==
    IF model_type = "xlm-roberta"
    THEN [ error |-> "none", lower_model |-> "LowerXLMREncoder" ]
    ELSE IF model_type = "bert"
    THEN [ error |-> "none", lower_model |-> "LowerBertEncoder" ]
    ELSE [ error |-> "NotImplementedError", lower_model |-> "none" ]

\* _freeze_lower: for param in self.lower_model.base_model.parameters()
_freeze_lower(requires_grad) ==
    [ p \in DOMAIN requires_grad |->
        IF p \in BodyParams THEN FALSE ELSE requires_grad[p] ]

\* an object whose __init__ raised
Raised(error, lower_model) ==
    [ error |-> error, class |-> "none", lower_model |-> lower_model,
      requires_grad |-> [ p \in {} |-> TRUE ], upper_positional |-> FALSE ]

\* the encoder's __init__ for an encoder class with parameters params;
\* args.model_name_or_path is read first, and args may be None
EncoderInit(a, class, params) ==
    LET sel == lower_selector(a.model_type)
        fresh == [ p \in params |-> TRUE ]
    IN  IF a.args = "None" THEN Raised("AttributeError", "none")
        ELSE IF sel.error # "none" THEN Raised(sel.error, "none")
        ELSE [ error |-> "none", class |-> class, lower_model |-> sel.lower_model,
               requires_grad |-> IF a.frozen THEN _freeze_lower(fresh) ELSE fresh,
               upper_positional |-> a.upper_positional ]

\* HiearchicalModel.__init__
HiearchicalModelInit(a) == EncoderInit(a, "HiearchicalModel", LowerParams \cup UpperParams)

\* HiearchicalBaseModel.__init__
HiearchicalBaseModelInit(a) == EncoderInit(a, "HiearchicalBaseModel", LowerParams)

\* a head whose __init__ raised; hm is the encoder built before that, if any
HeadRaised(error, hm) ==
    [ error |-> error, head |-> "none", hierarchical_model |-> hm,
      scale |-> 0, use_hard_negatives |-> FALSE,
      num_labels |-> 0, has_dropout |-> FALSE,
      requires_grad |-> [ p \in {} |-> TRUE ] ]

\* ContrastiveModel.__init__
ContrastiveModelInit(a) ==
    LET hm == HiearchicalModelInit(a)
    IN  IF hm.error # "none" THEN HeadRaised(hm.error, hm)
        ELSE IF a.similarity_fct # "cos_sim" THEN HeadRaised("NotImplementedError", hm)
        ELSE [ error |-> "none", head |-> "ContrastiveModel", hierarchical_model |-> hm,
               scale |-> a.scale, use_hard_negatives |-> a.use_hard_negatives,
               num_labels |-> 0, has_dropout |-> FALSE,
               requires_grad |-> hm.requires_grad ]

\* HierarchicalClassificationModel.__init__: the hierarchical encoder is
\* built first whatever custom_model is, and self.dropout is set only when
\* c_args.dropout is not None
HierarchicalClassificationModelInit(a) ==
    LET first == HiearchicalModelInit(a)
        hm == IF a.custom_model = "hierarchical" THEN HiearchicalModelInit(a)
              ELSE HiearchicalBaseModelInit(a)
    IN  IF first.error # "none" THEN HeadRaised(first.error, first)
        ELSE IF a.custom_model \notin {"hierarchical", "sliding_window"}
        THEN HeadRaised("NotImplementedError", first)
        ELSE [ error |-> "none", head |-> "HierarchicalClassificationModel",
               hierarchical_model |-> hm,
               scale |-> 0, use_hard_negatives |-> FALSE,
               num_labels |-> a.num_labels, has_dropout |-> (a.dropout # "None"),
               requires_grad |-> hm.requires_grad @@ [ p \in ClassifierParams |-> TRUE ] ]

\* --scale, default of train.py
DefaultScale == 20

\* The argument sets tried: train.py builds ContrastiveModel(args, tokenizer),
\* finetuning.py HierarchicalClassificationModel(c_args, args, tokenizer,
\* num_labels), where args is the pretraining run's arguments or None.
\* --dropout is a float or, by default, None.
Configs ==
    [ head : {"contrastive"}, args : {"given"}, model_type : ModelTypes, frozen : BOOLEAN,
      upper_positional : BOOLEAN, use_hard_negatives : BOOLEAN,
      similarity_fct : {"cos_sim", "dot"}, scale : {DefaultScale},
      custom_model : {"none"}, dropout : {"None"}, num_labels : {0} ]
    \cup
    [ head : {"classification"}, args : {"given", "None"}, model_type : ModelTypes, frozen : BOOLEAN,
      upper_positional : {TRUE}, use_hard_negatives : {FALSE},
      similarity_fct : {"cos_sim"}, scale : {DefaultScale},
      custom_model : {"hierarchical", "sliding_window", "longformer"},
      dropout : {"None", "0.1"}, num_labels : {1, 2} ]

-----------------------------------------------------------------------------
(* models.py: the tensors of a forward call.                               *)
(* A tensor is the list of lists it was built from.  A hidden vector is    *)
(* not computed: it is the record of what it was computed from, so that    *)
(* two vectors are equal exactly when the same computation was applied to  *)
(* the same inputs.                                                        *)

\* (variant) a permutation that also reverses the sentence positions
PermuteReversed(t) ==
    [ j \in 1..Len(t[1]) |-> [ b \in 1..Len(t) |-> t[b][Len(t[1]) + 1 - j] ] ]

\* tensor.permute(1, 0, 2) of a (batch, sentences, words) tensor, and of the
\* stacked (sentences, batch, hidden) outputs
Permute(t) == [ j \in 1..Len(t[1]) |-> [ b \in 1..Len(t) |-> t[b][j] ] ]

\* the token positions the transformer body attends to for one row: those
\* with mask 1, or all of them when no attention mask is given
Attends(input_ids_row, attention_mask, b) ==
    IF attention_mask = None THEN 1..Len(input_ids_row)
    ELSE { k \in 1..Len(input_ids_row) : attention_mask[b][k] = 1 }

\* LowerXLMREncoder.forward / LowerBertEncoder.forward: one call of the
\* body, last_hidden_state[:, 0], the pooler
LowerForward(input_ids, token_type_ids, attention_mask) ==
    [ body_call |-> [ input_ids |-> input_ids, attention_mask |-> attention_mask,
                      token_type_ids |-> None ],
      output |-> [ b \in 1..Len(input_ids) |->
                     [ via |-> "lower_model", input_ids |-> input_ids[b],
                       attends |-> Attends(input_ids[b], attention_mask, b) ] ] ]

\* self.lower_model(i_i, a_m): both arguments are positional, so a_m is
\* bound to the second parameter, token_type_ids
LowerCall(i_i, a_m) == LowerForward(i_i, a_m, None)

\* id of the token "[DCLS]" added to the tokenizer
DclsId == 9

\* word_embeddings(dcls_tokens["input_ids"]) for one example
DclsOut == [ via |-> "word_embeddings", input_ids |-> <<DclsId>>, attends |-> {} ]

\* (variant) the [DCLS] embedding put behind the sentence vectors
UpperForwardAppended(lower_output, upper_positional) ==
    [ b \in 1..Len(lower_output) |->
        [ pool |-> "position 0", upper_positional |-> upper_positional,
          sequence |-> lower_output[b] \o <<DclsOut>> ] ]

\* HiearchicalModel.forward after the loop, for every example: the [DCLS]
\* embedding is put in front, position embeddings are added if
\* upper_positional, the upper encoder runs without a mask, and position 0
\* of its output is the document vector
UpperForward(lower_output, upper_positional) ==
    [ b \in 1..Len(lower_output) |->
        [ pool |-> "position 0", upper_positional |-> upper_positional,
          sequence |-> <<DclsOut>> \o lower_output[b] ] ]

\* HiearchicalBaseModel.forward after the loop: torch.mean(lower_output, 1)
MeanForward(lower_output) ==
    [ b \in 1..Len(lower_output) |->
        [ pool |-> "mean", upper_positional |-> FALSE, sequence |-> lower_output[b] ] ]

-----------------------------------------------------------------------------
(* models.py: the heads.                                                   *)

\* (variant) hard negatives are left out when article_3 is not supplied
ContrastiveNextSkipMissing(m, in, done) ==
    LET needed == IF m.use_hard_negatives /\ in.article[3] # None THEN 4 ELSE 2
    IN  IF done >= needed THEN [ do |-> "finish", slot |-> 0, error |-> "none" ]
        ELSE IF in.article[done + 1] = None
        THEN [ do |-> "raise", slot |-> done + 1, error |-> "AttributeError" ]
        ELSE [ do |-> "encode", slot |-> done + 1, error |-> "none" ]

\* ContrastiveModel.forward after `done` encoder passes: the next pass, or
\* the scores.  A slot that was not supplied is None, and None.permute
\* raises AttributeError in the encoder's first line.
ContrastiveNext(m, in, done) ==
    LET needed == IF m.use_hard_negatives THEN 4 ELSE 2
    IN  IF done >= needed THEN [ do |-> "finish", slot |-> 0, error |-> "none" ]
        ELSE IF in.article[done + 1] = None
        THEN [ do |-> "raise", slot |-> done + 1, error |-> "AttributeError" ]
        ELSE [ do |-> "encode", slot |-> done + 1, error |-> "none" ]

\* HierarchicalClassificationModel.forward: one pass, on article_1
ClassificationNext(m, in, done) ==
    IF done >= 1 THEN [ do |-> "finish", slot |-> 0, error |-> "none" ]
    ELSE [ do |-> "encode", slot |-> 1, error |-> "none" ]

HeadNext(m, in, done) ==
    IF m.head = "ContrastiveModel" THEN ContrastiveNext(m, in, done)
    ELSE ClassificationNext(m, in, done)

\* (variant) every pass is given the mask of the first slot
SlotArgumentsFirstMask(in, slot) ==
    [ input_ids |-> in.article[slot], attention_mask |-> in.mask[1] ]

\* self.hierarchical_model(input_ids=article_k, attention_mask=mask_k)
SlotArguments(in, slot) ==
    [ input_ids |-> in.article[slot], attention_mask |-> in.mask[slot] ]

\* cos_sim(a, b) of utils: the matrix of cosines of every row of a with
\* every row of b
cos_sim(a, b) ==
    [ i \in 1..Len(a) |-> [ j \in 1..Len(b) |-> [ cos |-> <<a[i], b[j]>>, times |-> 1 ] ] ]

\* matrix * self.scale
Times(matrix, scale) ==
    [ i \in 1..Len(matrix) |->
        [ j \in 1..Len(matrix[i]) |-> [ matrix[i][j] EXCEPT !.times = @ * scale ] ] ]

\* (variant) the two hard-negative batches exchanged
SimilarityCallsCrossed(use_hard_negatives, o) ==
    IF use_hard_negatives
    THEN << [ a |-> o[1], b |-> o[2] \o o[4] ], [ a |-> o[2], b |-> o[1] \o o[3] ] >>
    ELSE << [ a |-> o[1], b |-> o[2] ], [ a |-> o[2], b |-> o[1] ] >>

\* the arguments of the two calls of self.similarity_fct; torch.cat joins
\* along the batch dimension
SimilarityCalls(use_hard_negatives, o) ==
    IF use_hard_negatives
    THEN << [ a |-> o[1], b |-> o[2] \o o[3] ], [ a |-> o[2], b |-> o[1] \o o[4] ] >>
    ELSE << [ a |-> o[1], b |-> o[2] ], [ a |-> o[2], b |-> o[1] ] >>

\* ContrastiveModel.forward from the scores on; o are the document vectors
\* of the passes.  labels holds 0-based column numbers.
ContrastiveFinish(m, o) ==
    LET calls == SimilarityCalls(m.use_hard_negatives, o)
        scores_1 == Times(cos_sim(calls[1].a, calls[1].b), m.scale)
        scores_2 == Times(cos_sim(calls[2].a, calls[2].b), m.scale)
        labels == [ i \in 1..Len(scores_1) |-> i - 1 ]
    IN  [ status |-> "returned", sim_calls |-> calls,
          scores_1 |-> scores_1, scores_2 |-> scores_2, labels |-> labels,
          loss |-> << [ fct |-> "CrossEntropyLoss", input |-> "scores_1" ],
                      [ fct |-> "CrossEntropyLoss", input |-> "scores_2" ] >> ]

\* (variant) the branch follows the label values
LossFctByValue(num_labels, labels) ==
    IF num_labels > 1 /\ (\E e \in 1..Len(labels.values) : labels.values[e] > 0)
    THEN "CrossEntropyLoss" ELSE "BCEWithLogitsLoss"

\* the loss branch of HierarchicalClassificationModel.forward
LossFct(num_labels, labels) ==
    IF num_labels > 1 /\ (labels.dtype = "torch.long" \/ labels.dtype = "torch.int")
    THEN "CrossEntropyLoss" ELSE "BCEWithLogitsLoss"

\* HierarchicalClassificationModel.forward after the encoder pass.  The
\* attribute self.dropout exists only if __init__ set it.  The loss
\* functions raise ValueError when the target does not fit the logits:
\* CrossEntropyLoss takes one class id per example (labels.view(-1)),
\* BCEWithLogitsLoss a target of the logits' shape.
ClassificationFinish(m, o, labels) ==
    LET output == [ b \in 1..Len(o) |-> [ dropout_of |-> o[b] ] ]
        logits == [ b \in 1..Len(o) |->
                      [ c \in 1..m.num_labels |-> [ classifier_row |-> c, of |-> output[b] ] ] ]
        loss_fct == LossFct(m.num_labels, labels)
        fits == IF loss_fct = "CrossEntropyLoss" THEN labels.shape = "N"
                ELSE labels.shape = "NxL"
    IN  IF ~m.has_dropout
        THEN [ status |-> "AttributeError", loss_fct |-> "none", logits |-> <<>> ]
        ELSE [ status |-> IF fits THEN "returned" ELSE "ValueError",
               loss_fct |-> loss_fct, logits |-> logits ]

-----------------------------------------------------------------------------
(* models.py: the batches handed to forward.  They are what the collator   *)
(* makes of n well-formed examples, slot by slot; example e has e          *)
(* sentences (one less in even slots), so the slots of a batch differ in   *)
(* shape and the shorter documents end in all-pad sentences.               *)

EncoderFeatures(n) ==
    Generated([ e \in 1..n |-> [ n |-> ((e - 1) % MaxDocLen) + 1,
                                 pat |-> "ramp", defect |-> "ok" ] ], 1..4)

\* the padded tensors of one slot
PaddedSlot(fs, k) ==
    LET p == ArticlePass(fs, k)
    IN  [ article |-> p.batch_sentences, mask |-> p.batch_masks ]

\* the slots a caller supplies to ContrastiveModel.forward
Supplies == { 1..2, 1..3, 1..4 }

ContrastiveInputs(n, supplied) ==
    [ article |-> [ k \in 1..4 |-> IF k \in supplied
                                   THEN PaddedSlot(EncoderFeatures(n), k).article ELSE None ],
      mask    |-> [ k \in 1..4 |-> IF k \in supplied
                                   THEN PaddedSlot(EncoderFeatures(n), k).mask ELSE None ],
      labels  |-> [ dtype |-> "none", shape |-> "none", values |-> <<>> ] ]

\* dtype of the labels tensor: torch.tensor gives torch.long for Python
\* ints and torch.float for floats; torch.int is the other dtype the head
\* tests for
LabelDtypes == { "torch.long", "torch.int", "torch.float" }

\* one entry per example ("N") or one row of num_labels entries ("NxL")
LabelShapes == { "N", "NxL" }

ClassificationInputs(n, dtype, shape, value) ==
    [ article |-> [ k \in 1..1 |-> PaddedSlot(EncoderFeatures(n), k).article ],
      mask    |-> [ k \in 1..1 |-> PaddedSlot(EncoderFeatures(n), k).mask ],
      labels  |-> [ dtype |-> dtype, shape |-> shape, values |-> [ e \in 1..n |-> value ] ] ]

InputsFor(head) ==
    IF head = "contrastive"
    THEN { ContrastiveInputs(n, supplied) : n \in 1..MaxBatch, supplied \in Supplies }
    ELSE { ClassificationInputs(n, dtype, shape, value) :
             n \in 1..MaxBatch, dtype \in LabelDtypes, shape \in LabelShapes,
             value \in 0..1 }

-----------------------------------------------------------------------------
(* models.py: construction and forward calls, step by step.                *)

\* The collator that made the batches is left alone.
InitModels ==
    /\ max_sentence_len = MaxSenLen
    /\ max_document_len = MaxDocLen
    /\ pad_id = 1
    /\ article_numbers = 4
    /\ pc = "init"
    /\ features = <<>>
    /\ run = NoRun
    /\ features_after = <<>>
    /\ run2 = NoRun
    /\ args \in Configs
    /\ model = NoModel
    /\ mpc = "new"
    /\ inputs = NoInputs
    /\ frame = NoFrame
    /\ outputs = <<>>
    /\ history = <<>>
    /\ TrainingOff

\* ContrastiveModel(args, tokenizer) in train.py,
\* HierarchicalClassificationModel(c_args, args, tokenizer, num_labels) in
\* finetuning.py
Construct ==
    /\ mpc = "new"
    /\ model' = IF args.head = "contrastive" THEN ContrastiveModelInit(args)
                ELSE HierarchicalClassificationModelInit(args)
    /\ mpc' = IF model'.error = "none" THEN "ready" ELSE "failed"
    /\ UNCHANGED <<args, inputs, frame, outputs, history>>
    /\ UNCHANGED <<collatorVars, trainVars>>

\* model(**batch): the head's forward is entered
StartForward(batches) ==
    /\ mpc = "ready"
    /\ \E in \in batches : inputs' = in
    /\ outputs' = <<>>
    /\ frame' = NoFrame
    /\ mpc' = "head"
    /\ UNCHANGED <<args, model, history>>
    /\ UNCHANGED <<collatorVars, trainVars>>

\* the first forward call on the model
Forward == history = <<>> /\ StartForward(InputsFor(args.head))

\* a second forward call on the same model, with a batch of the same size
ForwardAgain ==
    /\ Len(history) = 1
    /\ StartForward({ in \in InputsFor(args.head) :
                        Len(in.article[1]) = Len(history[1].inputs.article[1]) })

\* the head calls self.hierarchical_model on the next slot: the encoder's
\* forward permutes its arguments
EncoderEnter ==
    /\ mpc = "head"
    /\ LET todo == HeadNext(model, inputs, Len(outputs))
           a == SlotArguments(inputs, todo.slot)
       IN  /\ todo.do = "encode"
           /\ frame' = [ slot |-> todo.slot, called_with |-> a,
                         input_ids |-> Permute(a.input_ids),
                         attention_mask |-> Permute(a.attention_mask),
                         lower_encoded |-> <<>>, body_calls |-> <<>>,
                         lower_output |-> <<>> ]
    /\ mpc' = "lower"
    /\ UNCHANGED <<args, model, inputs, outputs, history>>
    /\ UNCHANGED <<collatorVars, trainVars>>

\* one turn of `for i_i, a_m in zip(input_ids, attention_mask)`;
\* lower_dropout rescales the vector and leaves what it was computed from
LowerStep ==
    /\ mpc = "lower"
    /\ Len(frame.lower_encoded) < Len(frame.input_ids)
    /\ LET j == Len(frame.lower_encoded) + 1
           r == LowerCall(frame.input_ids[j], frame.attention_mask[j])
       IN  frame' = [ frame EXCEPT !.lower_encoded = Append(@, r.output),
                                   !.body_calls = Append(@, r.body_call) ]
    /\ UNCHANGED <<args, model, mpc, inputs, outputs, history>>
    /\ UNCHANGED <<collatorVars, trainVars>>

\* (variant) the stack is built as soon as one position is encoded
StackEarly ==
    /\ mpc = "lower"
    /\ Len(frame.lower_encoded) >= 1
    /\ frame' = [ frame EXCEPT !.lower_output = Permute(frame.lower_encoded) ]
    /\ mpc' = "upper"
    /\ UNCHANGED <<args, model, inputs, outputs, history>>
    /\ UNCHANGED <<collatorVars, trainVars>>

\* torch.stack(lower_encoded).permute(1, 0, 2), once the loop has ended
Stack ==
    /\ mpc = "lower"
    /\ Len(frame.lower_encoded) = Len(frame.input_ids)
    /\ frame' = [ frame EXCEPT !.lower_output = Permute(frame.lower_encoded) ]
    /\ mpc' = "upper"
    /\ UNCHANGED <<args, model, inputs, outputs, history>>
    /\ UNCHANGED <<collatorVars, trainVars>>

\* the pass returns its document vectors to the head
Returns(final_output) ==
    /\ outputs' = Append(outputs, [ slot |-> frame.slot, called_with |-> frame.called_with,
                                    lower_calls |-> Len(frame.body_calls),
                                    final_output |-> final_output ])
    /\ frame' = NoFrame
    /\ mpc' = "head"
    /\ UNCHANGED <<args, model, inputs, history>>
    /\ UNCHANGED <<collatorVars, trainVars>>

\* the rest of HiearchicalModel.forward
Aggregate ==
    /\ mpc = "upper"
    /\ model.hierarchical_model.class = "HiearchicalModel"
    /\ Returns(UpperForward(frame.lower_output, model.hierarchical_model.upper_positional))

\* the rest of HiearchicalBaseModel.forward
MeanPool ==
    /\ mpc = "upper"
    /\ model.hierarchical_model.class = "HiearchicalBaseModel"
    /\ Returns(MeanForward(frame.lower_output))

\* the forward call ends, with what it returned or raised
Ends(result) ==
    /\ history' = Append(history, [ inputs |-> inputs, passes |-> outputs,
                                    result |-> result ])
    /\ inputs' = NoInputs
    /\ outputs' = <<>>
    /\ mpc' = "ready"
    /\ UNCHANGED <<args, model, frame>>
    /\ UNCHANGED <<collatorVars, trainVars>>

\* the next encoder pass is called on a slot that is None
HeadRaise ==
    /\ mpc = "head"
    /\ LET todo == HeadNext(model, inputs, Len(outputs))
       IN  /\ todo.do = "raise"
           /\ Ends([ status |-> todo.error ])

\* the head's own computation after the last encoder pass
HeadReturn ==
    /\ mpc = "head"
    /\ HeadNext(model, inputs, Len(outputs)).do = "finish"
    /\ IF model.head = "ContrastiveModel"
       THEN Ends(ContrastiveFinish(model, [ k \in 1..Len(outputs) |-> outputs[k].final_output ]))
       ELSE Ends(ClassificationFinish(model, outputs[1].final_output, inputs.labels))

NextModels ==
    \/ Construct
    \/ Forward
    \/ ForwardAgain
    \/ EncoderEnter
    \/ LowerStep
    \/ Stack
    \/ Aggregate
    \/ MeanPool
    \/ HeadRaise
    \/ HeadReturn

SpecModels == InitModels /\ [][NextModels]_vars

-----------------------------------------------------------------------------
(* Vocabulary of the properties of models.py.                              *)

\* __init__ has returned a model
Constructed == mpc \in {"ready", "head", "lower", "upper"}

\* the forward calls that have ended
Ended == 1..Len(history)

\* the ended forward calls that returned
ReturnedCalls == { n \in Ended : history[n].result.status = "returned" }

\* batch size of an ended call
BatchSize(n) == Len(history[n].inputs.article[1])

\* the document vectors the encoder made of slot k in call n
VectorsOf(n, k) ==
    (CHOOSE p \in { history[n].passes[i] : i \in 1..Len(history[n].passes) } :
        p.called_with.input_ids = history[n].inputs.article[k]).final_output

\* scale * sim(u, v)
Score(u, v) == [ cos |-> <<u, v>>, times |-> model.scale ]

\* C13: in every encoder pass, the body call of sentence position j has
\* that position's token ids as input ids and that position's mask slice
\* as attention mask, and each sentence vector attends to exactly the
\* token positions whose mask is 1.
C13_MaskReachesBody ==
    mpc \in {"lower", "upper"} =>
        \A j \in 1..Len(frame.body_calls) :
            /\ frame.body_calls[j].input_ids = frame.input_ids[j]
            /\ frame.body_calls[j].attention_mask = frame.attention_mask[j]
            /\ \A b \in 1..Len(frame.input_ids[j]) :
                  frame.lower_encoded[j][b].attends =
                      { k \in 1..Len(frame.input_ids[j][b]) :
                           frame.attention_mask[j][b][k] = 1 }

\* C14: once construction from given arguments has ended, family
\* 'xlm-roberta' has selected LowerXLMREncoder, family 'bert'
\* LowerBertEncoder, and for any other family construction has raised
\* NotImplementedError, no encoder object exists and no forward call was
\* ever entered.
C14_FamilySelected ==
    (mpc \notin {"off", "new"} /\ args.args = "given") =>
        /\ args.model_type = "xlm-roberta" =>
              model.hierarchical_model.lower_model = "LowerXLMREncoder"
        /\ args.model_type = "bert" =>
              model.hierarchical_model.lower_model = "LowerBertEncoder"
        /\ args.model_type \notin {"xlm-roberta", "bert"} =>
              /\ mpc = "failed"
              /\ model.error = "NotImplementedError"
              /\ model.hierarchical_model.class = "none"
              /\ model.hierarchical_model.lower_model = "none"
              /\ history = <<>> /\ inputs = NoInputs /\ frame = NoFrame

C14_Witness ==
    /\ mpc = "failed"
    /\ args.args = "given"
    /\ args.model_type = "longformer"
    /\ model.error = "NotImplementedError"

\* C15: with the frozen toggle set, every parameter of the lower encoder
\* (transformer body and pooling projection) has requires_grad False from
\* construction on, through every forward call; with the toggle not set,
\* every parameter has requires_grad True.
C15_FrozenLower ==
    Constructed =>
        /\ args.frozen => \A p \in LowerParams : ~model.requires_grad[p]
        /\ ~args.frozen => \A p \in DOMAIN model.requires_grad : model.requires_grad[p]

\* C16: in every forward call of the contrastive model that returned, with
\* batch size N: without hard negatives S1 and S2 are N x N with
\* S1[i][j] = scale * sim(anchor i, positive j) and
\* S2[i][j] = scale * sim(positive i, anchor j); with hard negatives both
\* are N x 2N, the columns of S1 being the positives followed by the
\* vectors of article_3 and those of S2 the anchors followed by the
\* vectors of article_4; the target column of row i is i (0-based i - 1).
C16_ScoreLayout ==
    (Constructed /\ model.head = "ContrastiveModel") =>
        \A n \in ReturnedCalls :
            LET r == history[n].result
                N == BatchSize(n)
                width == IF model.use_hard_negatives THEN 2 * N ELSE N
                first(k, other, j) == IF j <= N THEN VectorsOf(n, k)[j]
                                      ELSE VectorsOf(n, other)[j - N]
            IN  /\ Len(r.scores_1) = N /\ Len(r.scores_2) = N
                /\ DOMAIN r.labels = 1..N
                /\ \A i \in 1..N :
                      /\ Len(r.scores_1[i]) = width /\ Len(r.scores_2[i]) = width
                      /\ r.labels[i] = i - 1
                      /\ \A j \in 1..width :
                            /\ r.scores_1[i][j] = Score(VectorsOf(n, 1)[i], first(2, 3, j))
                            /\ r.scores_2[i][j] = Score(VectorsOf(n, 2)[i], first(1, 4, j))

\* a returned call with hard negatives on a batch of two or more
C16_Witness ==
    /\ Constructed /\ model.head = "ContrastiveModel" /\ model.use_hard_negatives
    /\ \E n \in ReturnedCalls :
          /\ BatchSize(n) >= 2
          /\ Len(history[n].result.scores_1[1]) = 2 * BatchSize(n)

\* the slots a forward call of the contrastive model uses
SlotsInUse == IF model.use_hard_negatives THEN 1..4 ELSE 1..2

\* C17: a forward call of the contrastive model that returned has made one
\* encoder pass per slot in use (2 without hard negatives, 4 with), pass k
\* on the token and mask tensors of slot k, and two similarity calls, the
\* second with the positives' vectors as first argument and the anchors'
\* vectors leading the second; while a call is in progress no slot has
\* been encoded twice.
C17_OnePassPerSlot ==
    (Constructed /\ model.head = "ContrastiveModel") =>
        /\ \A n \in ReturnedCalls :
              LET c == history[n]
                  N == BatchSize(n)
              IN  /\ DOMAIN c.passes = SlotsInUse
                  /\ \A k \in SlotsInUse :
                        /\ c.passes[k].slot = k
                        /\ c.passes[k].called_with.input_ids = c.inputs.article[k]
                        /\ c.passes[k].called_with.attention_mask = c.inputs.mask[k]
                  /\ Len(c.result.sim_calls) = 2
                  /\ c.result.sim_calls[1].a = c.passes[1].final_output
                  /\ SubSeq(c.result.sim_calls[1].b, 1, N) = c.passes[2].final_output
                  /\ c.result.sim_calls[2].a = c.passes[2].final_output
                  /\ SubSeq(c.result.sim_calls[2].b, 1, N) = c.passes[1].final_output
        /\ \A k \in 1..Len(outputs) :
              /\ k \in SlotsInUse
              /\ outputs[k].slot = k
              /\ outputs[k].called_with = [ input_ids |-> inputs.article[k],
                                            attention_mask |-> inputs.mask[k] ]

\* a returned call with four passes whose slots differ in their masks
C17_Witness ==
    /\ Constructed /\ model.head = "ContrastiveModel"
    /\ \E n \in ReturnedCalls :
          /\ Len(history[n].passes) = 4
          /\ history[n].inputs.mask[2] # history[n].inputs.mask[1]

\* a forward call that was not given both hard-negative slots
LacksHardNegatives(in) == in.article[3] = None \/ in.article[4] = None

\* C18: with hard negatives enabled, every forward call that is not given
\* article_3/mask_3 and article_4/mask_4, the first one included, raises
\* and returns no loss; a call in progress never holds scores made of two
\* slots.
C18_MissingSlotsFatal ==
    (Constructed /\ model.head = "ContrastiveModel" /\ model.use_hard_negatives) =>
        /\ \A n \in Ended :
              LacksHardNegatives(history[n].inputs) =>
                  /\ history[n].result.status = "AttributeError"
                  /\ DOMAIN history[n].result = {"status"}
        /\ (mpc = "head" /\ LacksHardNegatives(inputs)) =>
              HeadNext(model, inputs, Len(outputs)).do # "finish"

\* the first forward call lacked the hard negatives and raised
C18_Witness ==
    /\ Constructed /\ model.head = "ContrastiveModel" /\ model.use_hard_negatives
    /\ Len(history) >= 1
    /\ history[1].inputs.article[3] = None
    /\ history[1].result.status = "AttributeError"

\* the ended forward calls of the classification model that reached the
\* choice of the loss
BranchTaken == { n \in Ended : history[n].result.status \in {"returned", "ValueError"} }

\* C19: the classification head takes the categorical cross-entropy branch
\* exactly when num_labels > 1 and the labels' dtype is torch.long or
\* torch.int, and the binary cross-entropy branch otherwise; two forward
\* calls on labels of the same dtype take the same branch whatever the
\* label values.
C19_BranchByDtype ==
    (Constructed /\ model.head = "HierarchicalClassificationModel") =>
        /\ \A n \in BranchTaken :
              /\ history[n].result.loss_fct \in {"CrossEntropyLoss", "BCEWithLogitsLoss"}
              /\ history[n].result.loss_fct = "CrossEntropyLoss" <=>
                    /\ model.num_labels > 1
                    /\ history[n].inputs.labels.dtype \in {"torch.long", "torch.int"}
        /\ \A n1, n2 \in BranchTaken :
              history[n1].inputs.labels.dtype = history[n2].inputs.labels.dtype =>
                  history[n1].result.loss_fct = history[n2].result.loss_fct

\* num_labels = 1 and two calls on float labels, all 0.0 in one and all 1.0
\* in the other, both on the binary branch
C19_Witness ==
    /\ Constructed /\ model.head = "HierarchicalClassificationModel"
    /\ model.num_labels = 1
    /\ BranchTaken = {1, 2}
    /\ \A n \in BranchTaken :
          /\ history[n].inputs.labels.dtype = "torch.float"
          /\ history[n].result.loss_fct = "BCEWithLogitsLoss"
    /\ history[1].inputs.labels.values[1] # history[2].inputs.labels.values[1]

\* the labels have the shape the chosen loss function takes
LabelsFit(n) ==
    history[n].inputs.labels.shape =
        IF LossFct(model.num_labels, history[n].inputs.labels) = "CrossEntropyLoss"
        THEN "N" ELSE "NxL"

\* C20: every forward call of a constructed classification model, whether
\* the dropout option was set or not, on labels that fit the loss, has
\* returned, with logits of one row per example and num_labels entries per
\* row, each the projection of the dropped-out document vector.
C20_ForwardReturns ==
    (Constructed /\ model.head = "HierarchicalClassificationModel") =>
        \A n \in Ended :
            LabelsFit(n) =>
                /\ history[n].result.status = "returned"
                /\ Len(history[n].result.logits) = BatchSize(n)
                /\ \A b \in 1..BatchSize(n) :
                      /\ Len(history[n].result.logits[b]) = model.num_labels
                      /\ \A c \in 1..model.num_labels :
                            history[n].result.logits[b][c].of =
                                [ dropout_of |-> history[n].passes[1].final_output[b] ]

-----------------------------------------------------------------------------
(* The encoder pass in progress and the passes completed.                  *)

\* the (batch, doc_len, sen_len) tensors the pass in progress was called with
PassIds == frame.called_with.input_ids
PassMask == frame.called_with.attention_mask

\* doc_len of the pass in progress
PassDocLen == Len(PassIds[1])

\* sentence slot j of example b of a mask tensor is entirely padding
AllPad(mask, b, j) == \A k \in 1..Len(mask[b][j]) : mask[b][j][k] = 0

\* the passes of the forward call in progress and of the ended calls, each
\* with the mask tensor it was given
CompletedPasses ==
    { outputs[k] : k \in 1..Len(outputs) }
    \cup UNION { { history[n].passes[k] : k \in 1..Len(history[n].passes) } : n \in Ended }

\* C21: a step that starts the document-level part of an encoder pass
\* (leaves the loop, or aggregates and returns a document vector) is taken
\* only when every one of the doc_len sentence positions has been encoded,
\* and while the pass is in its upper part all positions are encoded.
C21_LowerBeforeUpper ==
    [][ /\ (mpc = "lower" /\ mpc' = "upper") =>
              Len(frame.lower_encoded) = PassDocLen
        /\ mpc' = "upper" =>
              /\ Len(frame'.lower_encoded) = Len(frame'.called_with.input_ids[1])
              /\ Len(frame'.body_calls) = Len(frame'.called_with.input_ids[1])
        /\ Len(outputs') > Len(outputs) =>
              /\ mpc = "upper"
              /\ Len(frame.lower_encoded) = PassDocLen
      ]_vars

\* a pass over two or more sentence positions is in its upper part
C21_Witness == mpc = "upper" /\ PassDocLen >= 2 /\ Len(frame.lower_encoded) = PassDocLen

\* C22: in an encoder pass on a (batch, doc_len, sen_len) input, the j-th
\* call of the lower encoder is on the (batch, sen_len) slice of sentence
\* position j; when the loop has ended there were exactly doc_len calls,
\* and entry [b][j] of the (batch, doc_len) stack is the vector made from
\* the token ids of sentence j of example b.
C22_OneCallPerPosition ==
    /\ mpc \in {"lower", "upper"} =>
          /\ Len(frame.body_calls) = Len(frame.lower_encoded)
          /\ Len(frame.body_calls) <= PassDocLen
          /\ \A j \in 1..Len(frame.body_calls) :
                frame.body_calls[j].input_ids =
                    [ b \in 1..Len(PassIds) |-> PassIds[b][j] ]
    /\ mpc = "upper" =>
          /\ Len(frame.body_calls) = PassDocLen
          /\ Len(frame.lower_output) = Len(PassIds)
          /\ \A b \in 1..Len(PassIds) :
                /\ Len(frame.lower_output[b]) = PassDocLen
                /\ \A j \in 1..PassDocLen :
                      /\ frame.lower_output[b][j].via = "lower_model"
                      /\ frame.lower_output[b][j].input_ids = PassIds[b][j]
    /\ \A p \in CompletedPasses : p.lower_calls = Len(p.called_with.input_ids[1])

\* the stack of a batch of two examples and two or more positions is built
C22_Witness ==
    /\ mpc = "upper" /\ PassDocLen >= 2 /\ Len(PassIds) >= 2
    /\ Len(frame.lower_output) = Len(PassIds)

\* C23: in every completed pass of the hierarchical encoder, the sequence
\* given to the upper transformer has doc_len + 1 entries for every
\* example: the first is the [DCLS] token's row of the lower encoder's
\* word-embedding table, the others are the example's sentence vectors in
\* the order of the sentences.
C23_DclsFirst ==
    (Constructed /\ model.hierarchical_model.class = "HiearchicalModel") =>
        \A p \in CompletedPasses :
            \A b \in 1..Len(p.final_output) :
                LET seq == p.final_output[b].sequence
                    ids == p.called_with.input_ids
                IN  /\ Len(seq) = Len(ids[b]) + 1
                    /\ seq[1] = [ via |-> "word_embeddings", input_ids |-> <<DclsId>>,
                                  attends |-> {} ]
                    /\ \A j \in 1..Len(ids[b]) :
                          /\ seq[j + 1].via = "lower_model"
                          /\ seq[j + 1].input_ids = ids[b][j]

\* a completed pass of the hierarchical encoder over two or more positions
C23_Witness ==
    /\ Constructed /\ model.hierarchical_model.class = "HiearchicalModel"
    /\ \E p \in CompletedPasses :
          /\ Len(p.called_with.input_ids[1]) >= 2
          /\ Len(p.final_output[1].sequence) = Len(p.called_with.input_ids[1]) + 1

\* self.transformer_encoder(lower_output): no mask and no
\* src_key_padding_mask is passed, so every position of the sequence
\* takes part in the upper encoder's attention
UpperAttends(v) == 1..Len(v.sequence)

\* torch.mean(lower_output, 1): the mean is over every position
MeanOver(v) == 1..Len(v.sequence)

\* C24: in every completed pass of the hierarchical encoder, a sentence
\* slot that is entirely padding takes no part in the upper encoder's
\* attention (sentence j is position j + 1 of the sequence).
C24_PadSlotsMasked ==
    (Constructed /\ model.hierarchical_model.class = "HiearchicalModel") =>
        \A p \in CompletedPasses :
            \A b \in 1..Len(p.final_output) :
                \A j \in 1..Len(p.called_with.attention_mask[b]) :
                    AllPad(p.called_with.attention_mask, b, j) =>
                        (j + 1) \notin UpperAttends(p.final_output[b])

\* C25: the document vector is read at the aggregation token's position by
\* the hierarchical encoder and is a mean by the sliding-window encoder,
\* as the configuration selects; a sentence slot that is entirely padding
\* is not among the positions a mean is taken over.
C25_MeanOverValid ==
    Constructed =>
        \A p \in CompletedPasses :
            \A b \in 1..Len(p.final_output) :
                /\ p.final_output[b].pool =
                      IF args.head = "classification" /\ args.custom_model = "sliding_window"
                      THEN "mean" ELSE "position 0"
                /\ p.final_output[b].pool = "mean" =>
                      \A j \in 1..Len(p.called_with.attention_mask[b]) :
                          AllPad(p.called_with.attention_mask, b, j) =>
                              j \notin MeanOver(p.final_output[b])

-----------------------------------------------------------------------------
(* The collator's effect on its input, and documents without sentences.    *)

EmptyDocument(s) ==
    \E i \in 1..Len(features) :
        s \in DOMAIN features[i].article /\ features[i].article[s] = <<>>

\* C27: a call on a batch in which some example has, in some slot, a
\* document with zero sentences does not return: it ends with an error,
\* with or without other, non-empty examples in the batch.
C27_EmptyDocumentFatal ==
    (pc # "init" /\ \E s \in 1..article_numbers : EmptyDocument(s)) =>
        run.status \notin {"returned", "none"}

-----------------------------------------------------------------------------
(* train.py and finetuning.py: the training loop.  The run is not resumed  *)
(* from a checkpoint, and every forward and backward pass returns.         *)

\* math.ceil(a / b) for positive b
CeilDiv(a, b) == (a + b - 1) \div b

\* The runs tried: --max_train_steps is given, or None and derived from
\* --num_train_epochs.  --max_patience is finetuning.py's only.
TrainConfigs ==
    { [ script |-> sc, len |-> l, gas |-> g, given |-> FALSE,
        num_train_epochs |-> e, max_train_steps |-> 0, max_patience |-> mp ] :
        sc \in {"train", "finetuning"}, l \in 1..MaxLoaderLen, g \in 1..MaxGas,
        e \in 1..MaxEpochs, mp \in 0..MaxPatienceArg }
    \cup
    { [ script |-> sc, len |-> l, gas |-> g, given |-> TRUE,
        num_train_epochs |-> 0, max_train_steps |-> m, max_patience |-> mp ] :
        sc \in {"train", "finetuning"}, l \in 1..MaxLoaderLen, g \in 1..MaxGas,
        m \in 1..MaxGivenSteps, mp \in 0..MaxPatienceArg }

\* num_update_steps_per_epoch
NumUpdateStepsPerEpoch(c) == CeilDiv(c.len, c.gas)

\* args.max_train_steps after the scheduler math
MaxTrainSteps(c) ==
    IF c.given THEN c.max_train_steps
    ELSE c.num_train_epochs * NumUpdateStepsPerEpoch(c)

\* args.num_train_epochs after the scheduler math
NumTrainEpochs(c) ==
    IF c.given THEN CeilDiv(c.max_train_steps, NumUpdateStepsPerEpoch(c))
    ELSE c.num_train_epochs

\* the validation losses an epoch can end with
Losses == 1..3

InitTraining ==
    /\ max_sentence_len = MaxSenLen
    /\ max_document_len = MaxDocLen
    /\ pad_id = 1
    /\ article_numbers = 1
    /\ pc = "init"
    /\ features = <<>>
    /\ run = NoRun
    /\ features_after = <<>>
    /\ run2 = NoRun
    /\ ModelsOff
    /\ tcfg \in { c \in TrainConfigs : c.script = "finetuning" \/ c.max_patience = 0 }
    /\ tpc = "train"
    /\ epoch = 0
    /\ step = 0
    /\ completed_steps = 0
    /\ accumulated = 0
    /\ updates = <<>>
    /\ losses = <<>>
    /\ best_score = Inf
    /\ patience = 0
    /\ saved = {}


\* step % args.gradient_accumulation_steps == 0 or
\* step == len(train_dataloader) - 1
UpdatesNow(c, st) == st % c.gas = 0 \/ st = c.len - 1

\* the end of one turn of the loop over batches: break when
\* completed_steps >= args.max_train_steps, else the next batch, if any
EndOfTurn ==
    IF completed_steps' >= MaxTrainSteps(tcfg) \/ step = tcfg.len - 1
    THEN tpc' = "eval" /\ step' = step
    ELSE tpc' = "train" /\ step' = step + 1

\* a batch whose backward pass is only accumulated
Accumulate ==
    /\ tpc = "train"
    /\ ~UpdatesNow(tcfg, step)
    /\ accumulated' = accumulated + 1
    /\ completed_steps' = completed_steps
    /\ EndOfTurn
    /\ UNCHANGED <<tcfg, epoch, updates, losses, best_score, patience, saved>>
    /\ UNCHANGED <<collatorVars, modelVars>>

\* a batch whose backward pass is followed by optimizer.step(),
\* lr_scheduler.step(), optimizer.zero_grad() and completed_steps += 1
Update ==
    /\ tpc = "train"
    /\ UpdatesNow(tcfg, step)
    /\ updates' = Append(updates, [ epoch |-> epoch, step |-> step,
                                    passes |-> accumulated + 1 ])
    /\ accumulated' = 0
    /\ completed_steps' = completed_steps + 1
    /\ EndOfTurn
    /\ UNCHANGED <<tcfg, epoch, losses, best_score, patience, saved>>
    /\ UNCHANGED <<collatorVars, modelVars>>


\* `if patience == args.max_patience: break`, in the branch that has just
\* incremented patience to p
Stops(c, p) == c.script = "finetuning" /\ p = c.max_patience

\* the epoch's evaluation with validation loss `loss`, the saving of the
\* best model, finetuning.py's patience, and the step to the next epoch
Evaluate ==
    /\ tpc = "eval"
    /\ \E loss \in Losses :
          /\ losses' = Append(losses, loss)
          /\ IF loss < best_score
             THEN /\ best_score' = loss
                  /\ saved' = saved \cup {epoch}
                  /\ patience' = IF tcfg.script = "finetuning" THEN 0 ELSE patience
             ELSE /\ best_score' = best_score
                  /\ saved' = saved
                  /\ patience' = IF tcfg.script = "finetuning" THEN patience + 1 ELSE patience
          /\ IF (loss >= best_score /\ Stops(tcfg, patience')) \/ epoch + 1 >= NumTrainEpochs(tcfg)
             THEN tpc' = "done" /\ epoch' = epoch /\ step' = step
             ELSE tpc' = "train" /\ epoch' = epoch + 1 /\ step' = 0
    /\ UNCHANGED <<tcfg, completed_steps, accumulated, updates>>
    /\ UNCHANGED <<collatorVars, modelVars>>

NextTraining == Accumulate \/ Update \/ Evaluate

SpecTraining == InitTraining /\ [][NextTraining]_vars

\* a training run is in play
Training == tpc \in {"train", "eval", "done"}

\* C28: in both scripts, whatever the dataloader length, the accumulation
\* steps and the epochs, and whether max_train_steps is given or derived,
\* neither completed_steps nor the number of optimizer updates made ever
\* exceeds max_train_steps.
C28_WithinMaxSteps ==
    Training =>
        /\ completed_steps <= MaxTrainSteps(tcfg)
        /\ Len(updates) <= MaxTrainSteps(tcfg)

\* C29: every optimizer update that is followed by another update of the
\* same epoch was made after exactly gradient_accumulation_steps backward
\* passes since the update before it or the start of the epoch.
C29_FullAccumulation ==
    Training =>
        \A i \in 1..(Len(updates) - 1) :
            updates[i + 1].epoch = updates[i].epoch =>
                updates[i].passes = tcfg.gas

\* validation loss of epoch e (0-based) is strictly below every earlier one
Improves(e) == \A d \in 0..(e - 1) : losses[e + 1] < losses[d + 1]

RECURSIVE SinceImprovement(_)
\* the number of consecutive evaluated epochs, up to epoch e, since the
\* last one that improved
SinceImprovement(e) ==
    IF e < 0 \/ Improves(e) THEN 0 ELSE 1 + SinceImprovement(e - 1)

\* C30: in finetuning.py the patience counter is the number of consecutive
\* evaluated epochs since the last strict improvement of the validation
\* loss, the model is saved exactly after the epochs whose validation loss
\* is strictly below every earlier epoch's, and, for every max_patience
\* from 0 on, no epoch is run after a non-improving epoch at whose end
\* that number has reached max_patience.
C30_Patience ==
    (Training /\ tcfg.script = "finetuning") =>
        /\ patience = SinceImprovement(Len(losses) - 1)
        /\ saved = { e \in 0..(Len(losses) - 1) : Improves(e) }
        /\ (tpc \in {"train", "eval"} /\ Len(losses) >= 1
                /\ ~Improves(Len(losses) - 1)) =>
              SinceImprovement(Len(losses) - 1) < tcfg.max_patience

====
